---- MODULE Spec2Model ----
(***************************************************************************)
(* A model of the concurrent crawl engine of Server/main.go: the Crawler   *)
(* (visited map under its mutex, WaitGroup, buffered concurrency channel)  *)
(* and the goroutines running crawlPage.  URLs are strings, handled        *)
(* character by character the way net/url and package strings handle them. *)
(***************************************************************************)
EXTENDS Integers, Sequences, FiniteSets, TLC

(***************************************************************************)
(* Bounds of the model.                                                    *)
(***************************************************************************)
\* maxDepth is drawn from 0..MaxDepthCfg
MaxDepthCfg == 2
\* maxConcurrency is drawn from 1..MaxConcurrencyCfg
MaxConcurrencyCfg == 2

(***************************************************************************)
(* package strings                                                         *)
(***************************************************************************)
\* the element of a one-element set: Only({F(v) : v \in {e}}) is F(e) with
\* e computed once
Only(S) == CHOOSE v \in S : TRUE

CharAt(s, i) == SubSeq(s, i, i)

Drop(s, n) == SubSeq(s, n + 1, Len(s))

\* strings.HasPrefix
HasPrefix(s, prefix) ==
    /\ Len(s) >= Len(prefix)
    /\ SubSeq(s, 1, Len(prefix)) = prefix

\* strings.Contains, for a one-character substring
Contains(s, ch) == \E i \in 1..Len(s) : CharAt(s, i) = ch

\* strings.Index, 1-based; 0 when ch does not occur
Index(s, ch) ==
    IF Contains(s, ch)
    THEN CHOOSE i \in 1..Len(s) :
            /\ CharAt(s, i) = ch
            /\ \A j \in 1..(i - 1) : CharAt(s, j) # ch
    ELSE 0

\* strings.LastIndex, 1-based; 0 when ch does not occur
LastIndex(s, ch) ==
    IF Contains(s, ch)
    THEN CHOOSE i \in 1..Len(s) :
            /\ CharAt(s, i) = ch
            /\ \A j \in (i + 1)..Len(s) : CharAt(s, j) # ch
    ELSE 0

\* strings.TrimRight(s, cutset) for a one-character cutset: s up to its
\* last character that is not ch
TrimRight(s, ch) ==
    SubSeq(s, 1, CHOOSE n \in 0..Len(s) :
                    /\ n = 0 \/ CharAt(s, n) # ch
                    /\ \A j \in (n + 1)..Len(s) : CharAt(s, j) = ch)

\* strings.ReplaceAll(s, old, new) for a one-character old, from index i on
RECURSIVE ReplaceFrom(_, _, _, _)
ReplaceFrom(s, i, old, new) ==
    IF i > Len(s) THEN ""
    ELSE (IF CharAt(s, i) = old THEN new ELSE CharAt(s, i))
            \o ReplaceFrom(s, i + 1, old, new)

\* strings.ReplaceAll
ReplaceAll(s, old, new) == ReplaceFrom(s, 1, old, new)

(***************************************************************************)
(* package net/url, restricted to lower-case URLs without query, fragment, *)
(* port or dot segments.                                                   *)
(***************************************************************************)
Letters ==
    {"a", "b", "c", "d", "e", "f", "g", "h", "i", "j", "k", "l", "m",
     "n", "o", "p", "q", "r", "s", "t", "u", "v", "w", "x", "y", "z"}

SchemeExtra == {"0", "1", "2", "3", "4", "5", "6", "7", "8", "9", "+", "-", "."}

\* url.getScheme, its loop from index i on: the length of the scheme, the
\* colon excluded; 0 when the string has no scheme; -1 is the error
\* "missing protocol scheme"
RECURSIVE getScheme(_, _)
getScheme(rawURL, i) ==
    IF i > Len(rawURL) THEN 0
    ELSE IF CharAt(rawURL, i) \in Letters THEN getScheme(rawURL, i + 1)
    ELSE IF CharAt(rawURL, i) \in SchemeExtra
         THEN (IF i = 1 THEN 0 ELSE getScheme(rawURL, i + 1))
    ELSE IF CharAt(rawURL, i) = ":" THEN (IF i = 1 THEN -1 ELSE i - 1)
    ELSE 0

NoURL == [ok |-> FALSE, Scheme |-> "", Host |-> "", Path |-> "", Opaque |-> ""]

\* url.parseAuthority and the path behind the authority; i is the index of
\* the first '/' of auth, the text behind "//"
parseAuthority(scheme, auth, i) ==
    LET authority == IF i = 0 THEN auth ELSE SubSeq(auth, 1, i - 1)
    IN  [ok |-> TRUE, Scheme |-> scheme,
         Host |-> Drop(authority, LastIndex(authority, "@")),
         Path |-> IF i = 0 THEN "" ELSE Drop(auth, i - 1), Opaque |-> ""]

\* url.parse behind the scheme
parse(scheme, rest) ==
    IF ~HasPrefix(rest, "/") /\ scheme # ""
    THEN [ok |-> TRUE, Scheme |-> scheme, Host |-> "", Path |-> "", Opaque |-> rest]
    ELSE IF ~HasPrefix(rest, "/") /\ Contains(rest, ":")
            /\ (Index(rest, "/") = 0 \/ Index(rest, ":") < Index(rest, "/"))
    THEN NoURL  \* first path segment in URL cannot contain colon
    ELSE IF HasPrefix(rest, "//") /\ (scheme # "" \/ ~HasPrefix(rest, "///"))
    THEN Only({parseAuthority(scheme, Drop(rest, 2), i) :
                    i \in {Index(Drop(rest, 2), "/")}})
    ELSE [ok |-> TRUE, Scheme |-> scheme, Host |-> "", Path |-> rest, Opaque |-> ""]

\* url.Parse
Parse(rawURL) ==
    Only({IF n < 0 THEN NoURL
          ELSE IF n = 0 THEN parse("", rawURL)
          ELSE parse(SubSeq(rawURL, 1, n), Drop(rawURL, n + 1)) :
             n \in {getScheme(rawURL, 1)}})

\* (*URL).String
String(u) ==
    (IF u.Scheme # "" THEN u.Scheme \o ":" ELSE "")
    \o (IF u.Opaque # "" THEN u.Opaque
        ELSE (IF (u.Scheme # "" \/ u.Host # "") /\ (u.Host # "" \/ u.Path # "")
              THEN "//" \o u.Host ELSE "")
             \o (IF u.Path # "" /\ ~HasPrefix(u.Path, "/") /\ u.Host # ""
                 THEN "/" ELSE "")
             \o u.Path)

\* url.resolvePath
resolvePath(base, ref) ==
    LET full == IF ref = "" THEN base
                ELSE IF ~HasPrefix(ref, "/")
                     THEN SubSeq(base, 1, LastIndex(base, "/")) \o ref
                     ELSE ref
    IN  IF full = "" THEN ""
        ELSE IF HasPrefix(full, "/") THEN full ELSE "/" \o full

\* (*URL).ResolveReference
ResolveReference(u, ref) ==
    LET scheme == IF ref.Scheme = "" THEN u.Scheme ELSE ref.Scheme
    IN  IF ref.Scheme # "" \/ ref.Host # ""
        THEN [ok |-> TRUE, Scheme |-> scheme, Host |-> ref.Host,
              Path |-> resolvePath(ref.Path, ""), Opaque |-> ref.Opaque]
        ELSE IF ref.Opaque # ""
        THEN [ok |-> TRUE, Scheme |-> scheme, Host |-> "", Path |-> "",
              Opaque |-> ref.Opaque]
        ELSE [ok |-> TRUE, Scheme |-> scheme, Host |-> u.Host,
              Path |-> resolvePath(u.Path, ref.Path), Opaque |-> ""]

(***************************************************************************)
(* The environment: the web site the crawler is pointed at.  A site maps   *)
(* the path of a request to the hrefs of the anchors of the document       *)
(* served there, in document order.                                        *)
(***************************************************************************)
\* the root links to /a and /b, and /a to /b: a race for one target
SiteDiamond ==
    ("/" :> <<"/a", "/b">>) @@ ("/a" :> <<"/b">>)

\* the admission example, and a path holding an '@'
SiteFilter ==
    ("/" :> <<"https://site.com/a", "https://other.com/b",
              "mailto:x@site.com", "ftp://site.com/c">>)
    @@ ("/a" :> <<"/u@x", "//site.com/a">>)

\* a nested page with a relative href and a link back to the root: a cycle
SiteNested ==
    ("/" :> <<"a/b">>) @@ ("/a/b" :> <<"c", "/">>)

\* a page below the root that links to itself, and a chain of two links
SiteSelf ==
    ("/foo/bar" :> <<"/foo/bar", "/x">>) @@ ("/x" :> <<"/y">>)

Sites == {SiteDiamond, SiteFilter, SiteNested, SiteSelf}

StartURLs ==
    {"https://site.com", "https://site.com/", "https://site.com/foo/bar", ":site.com"}

\* every href of every site
Hrefs == UNION {{s[p][k] : k \in 1..Len(s[p])} : <<s, p>> \in
                    UNION {{<<s, p>> : p \in DOMAIN s} : s \in Sites}}

\* the absolute, cleaned URL of href on a page whose base is base
\* (extractLinks, lines 115-122)
Absolute(base, href) ==
    Only({TrimRight(fullURL, "/") :
            fullURL \in {String(ResolveReference(base, href))}})

\* every string the crawler can meet: the start URLs, the hrefs, and the
\* links made of them, against the start URL or against another link
Links(bases) ==
    {Absolute(bh[1], bh[2]) :
        bh \in {pp \in {Parse(b) : b \in bases} \X {Parse(h) : h \in Hrefs} :
                    pp[1].ok /\ pp[2].ok}}

URLStrings ==
    StartURLs \cup Hrefs \cup Links(StartURLs) \cup Links(Links(StartURLs))

\* url.Parse over URLStrings, computed once
ParseOf == [raw \in URLStrings |-> Parse(raw)]

\* the document a GET of pageURL is answered with
PageOf(s, pageURL) ==
    LET path == ParseOf[pageURL].Path
        p == IF path = "" THEN "/" ELSE path
    IN  IF p \in DOMAIN s THEN s[p] ELSE <<>>

(***************************************************************************)
(* State                                                                   *)
(***************************************************************************)
VARIABLES
    site,             \* the web site (environment)
    startURL,         \* main: startURL
    maxDepth,         \* Crawler.maxDepth
    maxConcurrency,   \* cap(Crawler.concurrencyChan)
    baseURL,          \* Crawler.baseURL
    visited,          \* Crawler.visited: the keys mapped to true
    wg,               \* Crawler.wg: the WaitGroup counter
    concurrencyChan,  \* len(Crawler.concurrencyChan)
    tasks,            \* the calls of crawlPage, in the order of their wg.Add(1)
    files,            \* names of the files written under crawl_output
    log,              \* the error lines printed: <<kind, pageURL>>
    mainPc            \* where main is

vars == <<site, startURL, maxDepth, maxConcurrency, baseURL, visited, wg,
          concurrencyChan, tasks, files, log, mainPc>>

config == <<site, startURL, maxDepth, maxConcurrency, baseURL>>

Tasks == 1..Len(tasks)

\* a call crawlPage(pageURL, depth), counted by wg.Add(1) and not yet started
\* by its go statement; parent is the caller, 0 for Crawl
NewTask(pageURL, depth, parent) ==
    [url |-> pageURL, depth |-> depth, parent |-> parent, pc |-> "new",
     claim |-> "none",   \* outcome of lines 60-70: none, depth, lost, won
     got |-> "none",     \* outcome of http.Get: none, ok, err
     pos |-> 0,          \* anchors of resp.Body already read
     readErr |-> FALSE,  \* a Read of resp.Body has returned an error
     saved |-> "none",   \* outcome of savePage: none, ok, err
     links |-> {},       \* the value of links (line 90)
     todo |-> {},        \* links the loop of line 93 has not reached
     acq |-> 0,          \* sends on concurrencyChan by this goroutine
     rel |-> 0]          \* receives from concurrencyChan by this goroutine

Init ==
    /\ site \in Sites
    /\ startURL \in StartURLs
    /\ maxDepth \in 0..MaxDepthCfg
    /\ maxConcurrency \in 1..MaxConcurrencyCfg
    /\ baseURL = NoURL
    /\ visited = {}
    /\ wg = 0
    /\ concurrencyChan = 0
    /\ tasks = <<>>
    /\ files = {}
    /\ log = {}
    /\ mainPc = "main"

(***************************************************************************)
(* main, NewCrawler, Crawl                                                 *)
(***************************************************************************)
\* NewCrawler with the error of url.Parse dropped
NewCrawlerNoCheck ==
    /\ mainPc = "main"
    /\ baseURL' = ParseOf[startURL]
    /\ mainPc' = "crawl"
    /\ UNCHANGED <<site, startURL, maxDepth, maxConcurrency, visited, wg,
                   concurrencyChan, tasks, files, log>>

\* NewCrawler, and main's return when it fails
NewCrawler ==
    /\ mainPc = "main"
    /\ IF ParseOf[startURL].ok
       THEN /\ baseURL' = ParseOf[startURL]
            /\ mainPc' = "crawl"
       ELSE /\ baseURL' = baseURL
            /\ mainPc' = "exit"
    /\ UNCHANGED <<site, startURL, maxDepth, maxConcurrency, visited, wg,
                   concurrencyChan, tasks, files, log>>

\* Crawl, line 50: c.wg.Add(1)
Crawl ==
    /\ mainPc = "crawl"
    /\ wg' = wg + 1
    /\ tasks' = Append(tasks, NewTask(String(baseURL), 0, 0))
    /\ mainPc' = "go"
    /\ UNCHANGED <<config, visited, concurrencyChan, files, log>>

\* Crawl, line 51: go c.crawlPage(c.baseURL.String(), 0)
CrawlGo ==
    /\ mainPc = "go"
    /\ tasks' = [tasks EXCEPT ![1].pc = "start"]
    /\ mainPc' = "wait"
    /\ UNCHANGED <<config, visited, wg, concurrencyChan, files, log>>

\* Crawl, line 52: c.wg.Wait() returns once the counter is zero
Wait ==
    /\ mainPc = "wait"
    /\ wg = 0
    /\ mainPc' = "done"
    /\ UNCHANGED <<config, visited, wg, concurrencyChan, tasks, files, log>>

(***************************************************************************)
(* isValidLink, extractLinks, savePage                                     *)
(***************************************************************************)
\* isValidLink without the scheme test
isValidLinkAnyScheme(linkURL) ==
    LET parsedLink == ParseOf[linkURL]
    IN  /\ parsedLink.ok
        /\ parsedLink.Host = baseURL.Host
        /\ ~Contains(parsedLink.Path, "@")

\* Crawler.isValidLink
isValidLink(linkURL) ==
    LET parsedLink == ParseOf[linkURL]
    IN  /\ parsedLink.ok
        /\ parsedLink.Host = baseURL.Host
        /\ ~Contains(parsedLink.Path, "@")
        /\ HasPrefix(parsedLink.Scheme, "http")

\* Crawler.extractLinks over the anchors html.Parse finds in what is left of
\* the body; the parameter baseURL of the code is not used by it
extractLinks(hrefs) ==
    {Absolute(baseURL, ParseOf[hrefs[k]]) :
        k \in {j \in 1..Len(hrefs) : ParseOf[hrefs[j]].ok}}

\* savePage's file name without the "index" case of lines 168-170
FileNameNoIndex(pageURL) ==
    Only({"crawl_output/" \o baseURL.Host \o "/" \o name \o ".html" :
          name \in {ReplaceAll(ParseOf[pageURL].Path, "/", "_")}})

\* savePage: the file name
FileName(pageURL) ==
    Only({"crawl_output/" \o baseURL.Host \o "/"
            \o (IF name = "" \/ name = "_" THEN "index" ELSE name) \o ".html" :
          name \in {ReplaceAll(ParseOf[pageURL].Path, "/", "_")}})

(***************************************************************************)
(* crawlPage, one action per step that touches shared state or the         *)
(* environment.  i is the goroutine.                                       *)
(***************************************************************************)
Set(i, f) == tasks' = [tasks EXCEPT ![i] = f]

\* CheckDepth with the test off by one
CheckDepthOffByOne(i) ==
    /\ tasks[i].pc = "start"
    /\ IF tasks[i].depth > maxDepth + 1
       THEN Set(i, [tasks[i] EXCEPT !.pc = "wgdone", !.claim = "depth"])
       ELSE Set(i, [tasks[i] EXCEPT !.pc = "claim"])
    /\ UNCHANGED <<config, visited, wg, concurrencyChan, files, log, mainPc>>

\* CheckDepth that records the target in visited before it returns on depth
CheckDepthMarks(i) ==
    /\ tasks[i].pc = "start"
    /\ IF tasks[i].depth > maxDepth
       THEN /\ Set(i, [tasks[i] EXCEPT !.pc = "wgdone", !.claim = "depth"])
            /\ visited' = visited \cup {tasks[i].url}
       ELSE /\ Set(i, [tasks[i] EXCEPT !.pc = "claim"])
            /\ visited' = visited
    /\ UNCHANGED <<config, wg, concurrencyChan, files, log, mainPc>>

\* lines 60-62: the depth test
CheckDepth(i) ==
    /\ tasks[i].pc = "start"
    /\ IF tasks[i].depth > maxDepth
       THEN Set(i, [tasks[i] EXCEPT !.pc = "wgdone", !.claim = "depth"])
       ELSE Set(i, [tasks[i] EXCEPT !.pc = "claim"])
    /\ UNCHANGED <<config, visited, wg, concurrencyChan, files, log, mainPc>>

\* Claim without the test of line 65
ClaimNoTest(i) ==
    /\ tasks[i].pc = "claim"
    /\ Set(i, [tasks[i] EXCEPT !.pc = "acquire", !.claim = "won"])
    /\ visited' = visited \cup {tasks[i].url}
    /\ UNCHANGED <<config, wg, concurrencyChan, files, log, mainPc>>

\* lines 64-70: test and insert under visitedMutex
Claim(i) ==
    /\ tasks[i].pc = "claim"
    /\ IF tasks[i].url \in visited
       THEN /\ Set(i, [tasks[i] EXCEPT !.pc = "wgdone", !.claim = "lost"])
            /\ visited' = visited
       ELSE /\ Set(i, [tasks[i] EXCEPT !.pc = "acquire", !.claim = "won"])
            /\ visited' = visited \cup {tasks[i].url}
    /\ UNCHANGED <<config, wg, concurrencyChan, files, log, mainPc>>

\* Acquire with a send that never blocks
AcquireNoBlock(i) ==
    /\ tasks[i].pc = "acquire"
    /\ concurrencyChan' = concurrencyChan + 1
    /\ Set(i, [tasks[i] EXCEPT !.pc = "fetch", !.acq = @ + 1])
    /\ UNCHANGED <<config, visited, wg, files, log, mainPc>>

\* line 73: the send blocks while the channel is full
Acquire(i) ==
    /\ tasks[i].pc = "acquire"
    /\ concurrencyChan < maxConcurrency
    /\ concurrencyChan' = concurrencyChan + 1
    /\ Set(i, [tasks[i] EXCEPT !.pc = "fetch", !.acq = @ + 1])
    /\ UNCHANGED <<config, visited, wg, files, log, mainPc>>

\* Fetch with the release registered only after a successful fetch
FetchLeak(i) ==
    /\ tasks[i].pc = "fetch"
    /\ \/ /\ Set(i, [tasks[i] EXCEPT !.pc = "save", !.got = "ok"])
          /\ log' = log
       \/ /\ Set(i, [tasks[i] EXCEPT !.pc = "wgdone", !.got = "err"])
          /\ log' = log \cup {<<"Error fetching", tasks[i].url>>}
    /\ UNCHANGED <<config, visited, wg, concurrencyChan, files, mainPc>>

\* Fetch without the return of line 80
FetchNoReturn(i) ==
    /\ tasks[i].pc = "fetch"
    /\ \/ /\ Set(i, [tasks[i] EXCEPT !.pc = "save", !.got = "ok"])
          /\ log' = log
       \/ /\ Set(i, [tasks[i] EXCEPT !.pc = "save", !.got = "err"])
          /\ log' = log \cup {<<"Error fetching", tasks[i].url>>}
    /\ UNCHANGED <<config, visited, wg, concurrencyChan, files, mainPc>>

\* Fetch that calls http.Get again after an error
FetchRetry(i) ==
    /\ tasks[i].pc = "fetch"
    /\ \/ /\ Set(i, [tasks[i] EXCEPT !.pc = "save", !.got = "ok"])
          /\ log' = log
       \/ /\ Set(i, [tasks[i] EXCEPT !.pc = "fetch", !.got = "err"])
          /\ log' = log \cup {<<"Error fetching", tasks[i].url>>}
    /\ UNCHANGED <<config, visited, wg, concurrencyChan, files, mainPc>>

\* Fetch that receives from concurrencyChan as soon as http.Get returned
FetchReleaseEarly(i) ==
    /\ tasks[i].pc = "fetch"
    /\ \/ /\ Set(i, [tasks[i] EXCEPT !.pc = "save", !.got = "ok", !.rel = @ + 1])
          /\ concurrencyChan' = concurrencyChan - 1
          /\ log' = log
       \/ /\ Set(i, [tasks[i] EXCEPT !.pc = "release", !.got = "err"])
          /\ concurrencyChan' = concurrencyChan
          /\ log' = log \cup {<<"Error fetching", tasks[i].url>>}
    /\ UNCHANGED <<config, visited, wg, files, mainPc>>

\* lines 77-81: http.Get returns a response, or an error and crawlPage returns
Fetch(i) ==
    /\ tasks[i].pc = "fetch"
    /\ \/ /\ Set(i, [tasks[i] EXCEPT !.pc = "save", !.got = "ok"])
          /\ log' = log
       \/ /\ Set(i, [tasks[i] EXCEPT !.pc = "release", !.got = "err"])
          /\ log' = log \cup {<<"Error fetching", tasks[i].url>>}
    /\ UNCHANGED <<config, visited, wg, concurrencyChan, files, mainPc>>

\* lines 85-87 and savePage: io.ReadAll reads resp.Body to its end, or to a
\* read error after k anchors; then os.WriteFile succeeds or fails.  The
\* error is printed and crawlPage goes on.
SavePage(i) ==
    /\ tasks[i].pc = "save"
    /\ LET n == Len(PageOf(site, tasks[i].url))
           failed == log \cup {<<"Error saving page", tasks[i].url>>}
       IN  \/ /\ Set(i, [tasks[i] EXCEPT !.pc = "extract", !.pos = n, !.saved = "ok"])
              /\ files' = files \cup {FileName(tasks[i].url)}
              /\ log' = log
           \/ /\ Set(i, [tasks[i] EXCEPT !.pc = "extract", !.pos = n, !.saved = "err"])
              /\ files' = files
              /\ log' = failed
           \/ /\ \E k \in 0..n :
                    Set(i, [tasks[i] EXCEPT !.pc = "extract", !.pos = k,
                                            !.readErr = TRUE, !.saved = "err"])
              /\ files' = files
              /\ log' = failed
    /\ UNCHANGED <<config, visited, wg, concurrencyChan, mainPc>>

\* what html.Parse can read of resp.Body at line 90: the anchors behind
\* those already read
Unread(i) ==
    LET page == PageOf(site, tasks[i].url)
    IN  SubSeq(page, tasks[i].pos + 1, Len(page))

\* line 90 and extractLinks.  After io.ReadAll has reached the end of the
\* body nothing is left for html.Parse.  After a failed Read the Reader
\* either fails again (html.Parse returns the error, line 106: no links) or
\* delivers the rest of the stream.  io.Reader allows both; the bodies of
\* net/http keep failing, so with them links is always empty, and the
\* second outcome is what lets the loop of line 93 run in this model.
ExtractLinks(i) ==
    /\ tasks[i].pc = "extract"
    /\ \E ls \in {extractLinks(Unread(i))} \cup
                    (IF tasks[i].readErr THEN {{}} ELSE {}) :
          Set(i, [tasks[i] EXCEPT !.pc = IF ls = {} THEN "release" ELSE "spawn",
                                  !.links = ls, !.todo = ls])
    /\ UNCHANGED <<config, visited, wg, concurrencyChan, files, log, mainPc>>

\* where the loop of line 93 goes when todo is left
LoopPc(todo) == IF todo = {} THEN "release" ELSE "spawn"

\* Spawn without the c.wg.Add(1) of line 96
SpawnNoAdd(i) ==
    /\ tasks[i].pc = "spawn"
    /\ \E link \in tasks[i].todo :
          LET rest == tasks[i].todo \ {link}
          IN  IF isValidLink(link)
              THEN tasks' = Append([tasks EXCEPT ![i].todo = rest, ![i].pc = "go"],
                                   NewTask(link, tasks[i].depth + 1, i))
              ELSE Set(i, [tasks[i] EXCEPT !.todo = rest, !.pc = LoopPc(rest)])
    /\ UNCHANGED <<config, visited, wg, concurrencyChan, files, log, mainPc>>

\* lines 93-96: the next link of the loop, in the order the map gives; for a
\* valid one c.wg.Add(1)
Spawn(i) ==
    /\ tasks[i].pc = "spawn"
    /\ \E link \in tasks[i].todo :
          LET rest == tasks[i].todo \ {link}
          IN  IF isValidLink(link)
              THEN /\ wg' = wg + 1
                   /\ tasks' = Append([tasks EXCEPT ![i].todo = rest, ![i].pc = "go"],
                                      NewTask(link, tasks[i].depth + 1, i))
              ELSE /\ wg' = wg
                   /\ Set(i, [tasks[i] EXCEPT !.todo = rest, !.pc = LoopPc(rest)])
    /\ UNCHANGED <<config, visited, concurrencyChan, files, log, mainPc>>

\* line 97: go c.crawlPage(link, depth+1)
Go(i) ==
    /\ tasks[i].pc = "go"
    /\ \E j \in Tasks :
          /\ tasks[j].parent = i
          /\ tasks[j].pc = "new"
          /\ tasks' = [tasks EXCEPT ![j].pc = "start",
                                    ![i].pc = LoopPc(tasks[i].todo)]
    /\ UNCHANGED <<config, visited, wg, concurrencyChan, files, log, mainPc>>

\* the deferred calls run on return: resp.Body.Close() of line 82, after
\* which nothing of the body is left to read, then <-c.concurrencyChan of
\* line 74
Release(i) ==
    /\ tasks[i].pc = "release"
    /\ concurrencyChan' = concurrencyChan - 1
    /\ Set(i, [tasks[i] EXCEPT !.pc = "wgdone", !.rel = @ + 1,
                               !.pos = 0, !.readErr = FALSE])
    /\ UNCHANGED <<config, visited, wg, files, log, mainPc>>

\* line 57, deferred: c.wg.Done()
WgDone(i) ==
    /\ tasks[i].pc = "wgdone"
    /\ wg' = wg - 1
    /\ Set(i, [tasks[i] EXCEPT !.pc = "finished"])
    /\ UNCHANGED <<config, visited, concurrencyChan, files, log, mainPc>>

Next ==
    \/ NewCrawler
    \/ Crawl
    \/ CrawlGo
    \/ Wait
    \/ \E i \in Tasks : CheckDepth(i)
    \/ \E i \in Tasks : Claim(i)
    \/ \E i \in Tasks : Acquire(i)
    \/ \E i \in Tasks : Fetch(i)
    \/ \E i \in Tasks : SavePage(i)
    \/ \E i \in Tasks : ExtractLinks(i)
    \/ \E i \in Tasks : Spawn(i)
    \/ \E i \in Tasks : Go(i)
    \/ \E i \in Tasks : Release(i)
    \/ \E i \in Tasks : WgDone(i)

Spec == Init /\ [][Next]_vars

\* every step of a goroutine that can be taken is taken in the end: the Go
\* scheduler runs every runnable goroutine, and every http.Get returns
FairSpec == Spec /\ WF_vars(Next)

(***************************************************************************)
(* Properties                                                              *)
(***************************************************************************)
Unfinished == {i \in Tasks : tasks[i].pc # "finished"}

\* the calls made by call i (lines 96-97)
Children(i) == {j \in Tasks : tasks[j].parent = i}

\* the calls for one target whose http.Get has returned
FetchesOf(target) == {i \in Tasks : tasks[i].url = target /\ tasks[i].got # "none"}

\* the goroutines that have sent on concurrencyChan and not yet received
Holders == {i \in Tasks : tasks[i].acq > tasks[i].rel}

\* C1 (Dedup): among the calls of crawlPage for one target at most one finds
\* the target absent from visited and inserts it; a call that found it
\* present has a winner beside it; a call that did not win never reaches
\* the channel or http.Get; so no target is fetched twice.
C1_Dedup ==
    \A i \in Tasks :
        /\ tasks[i].claim = "won" =>
              /\ tasks[i].url \in visited
              /\ \A j \in Tasks \ {i} :
                    tasks[j].url = tasks[i].url => tasks[j].claim # "won"
        /\ tasks[i].claim = "lost" =>
              \E j \in Tasks \ {i} :
                  tasks[j].url = tasks[i].url /\ tasks[j].claim = "won"
        /\ tasks[i].claim # "won" =>
              tasks[i].got = "none" /\ tasks[i].acq = 0
        /\ Cardinality(FetchesOf(tasks[i].url)) <= 1

\* Two calls for one target started by different parents, one the winner and
\* still before its fetch, the other turned away.
C1_Witness ==
    \E i, j \in Tasks :
        /\ tasks[i].url = tasks[j].url
        /\ tasks[i].parent # tasks[j].parent
        /\ tasks[i].claim = "won" /\ tasks[i].pc \in {"acquire", "fetch"}
        /\ tasks[j].claim = "lost" /\ tasks[j].pc = "wgdone"

\* some unfinished call is not waiting at the send of line 73 on a full channel
NotAllBlocked ==
    Unfinished = {} \/
    \E i \in Unfinished :
        ~(tasks[i].pc = "acquire" /\ concurrencyChan >= maxConcurrency)

\* C2 (Termination): once Crawl waits, the counter reaches zero and Wait
\* returns, on every site, with its cycles and back links; and at no time
\* are all unfinished calls blocked on the channel.
C2_Termination ==
    /\ []NotAllBlocked
    /\ (mainPc = "wait") ~> (mainPc = "done" /\ wg = 0)

\* Crawl has returned on the site with the cycle, after the call for the
\* link back to the start page was turned away.
C2_Witness ==
    /\ mainPc = "done"
    /\ wg = 0
    /\ site = SiteNested
    /\ maxConcurrency = 1
    /\ \E i \in Tasks : tasks[i].claim = "lost" /\ tasks[i].url = startURL

\* C3 (No premature completion): the counter is the number of calls counted
\* by wg.Add and not yet finished, it is never negative, a call is counted
\* before its go statement runs and before its parent finishes, and Wait
\* has returned only when every call has finished and none is spawning.
C3_Counter ==
    /\ wg = Cardinality(Unfinished)
    /\ wg >= 0
    /\ \A j \in Tasks :
          tasks[j].pc = "new" =>
              IF tasks[j].parent = 0 THEN mainPc = "go"
              ELSE tasks[tasks[j].parent].pc = "go"
    /\ \A j \in Unfinished :
          tasks[j].parent # 0 /\ tasks[tasks[j].parent].pc \in {"wgdone", "finished"}
              => tasks[j].pc # "new"
    /\ mainPc = "done" => Unfinished = {}

\* A parent has finished while a child it started is still running and
\* Crawl is still waiting.
C3_Witness ==
    /\ mainPc = "wait"
    /\ \E j \in Unfinished :
          /\ tasks[j].parent # 0
          /\ tasks[tasks[j].parent].pc = "finished"
          /\ tasks[j].pc = "fetch"
          /\ wg = 1

\* C4 (Concurrency bound): the goroutines between the send of line 73 and
\* the receive of line 74 are never more than maxConcurrency.
C4_ConcurrencyBound ==
    /\ Cardinality(Holders) <= maxConcurrency
    /\ Cardinality({i \in Tasks : tasks[i].pc = "fetch"}) <= maxConcurrency
    /\ concurrencyChan <= maxConcurrency

\* The channel is full, one holder is in http.Get, and a third call waits
\* at the send.
C4_Witness ==
    /\ maxConcurrency = 2
    /\ Cardinality(Holders) = 2
    /\ \E i \in Tasks : tasks[i].pc = "fetch"
    /\ \E i \in Tasks : tasks[i].pc = "acquire"

\* C5 (Depth bound): no call fetches at a depth above maxDepth; with
\* maxDepth = 0 only the call made by Crawl, for the start URL, fetches.
C5_DepthBound ==
    \A i \in Tasks :
        tasks[i].got # "none" =>
            /\ tasks[i].depth <= maxDepth
            /\ maxDepth = 0 => i = 1 /\ tasks[i].url = String(baseURL)

\* With maxDepth = 0 the start page gave two valid links, and both calls
\* were turned away by the depth test.
C5_Witness ==
    /\ maxDepth = 0
    /\ mainPc = "done"
    /\ Cardinality({j \in Tasks : tasks[j].claim = "depth" /\ tasks[j].depth = 1}) = 2

\* C6 (Permit accounting): a goroutine sends at most once, receives only
\* after sending, has received exactly as often as it sent once it is past
\* the deferred receive, never receives without having sent, and the
\* channel holds one element per goroutine between send and receive.
C6_PermitAccounting ==
    /\ concurrencyChan = Cardinality(Holders)
    /\ \A i \in Tasks :
          /\ tasks[i].rel <= tasks[i].acq
          /\ tasks[i].acq <= 1
          /\ tasks[i].pc \in {"wgdone", "finished"} => tasks[i].rel = tasks[i].acq
          /\ tasks[i].got # "none" /\ tasks[i].pc \in {"wgdone", "finished"}
                => tasks[i].rel = 1
          /\ tasks[i].claim # "won" => tasks[i].acq = 0 /\ tasks[i].rel = 0

\* Three calls have finished with the permit given back: one whose fetch
\* failed, one whose save failed, one that fetched and saved.
C6_Witness ==
    \E i, j, k \in Tasks :
        /\ tasks[i].pc = "finished" /\ tasks[i].got = "err" /\ tasks[i].rel = 1
        /\ tasks[j].pc = "finished" /\ tasks[j].saved = "err" /\ tasks[j].rel = 1
        /\ tasks[k].pc = "finished" /\ tasks[k].saved = "ok" /\ tasks[k].rel = 1
        /\ concurrencyChan = 0

\* crawlPage has left the loop of line 93
Expanded(i) == tasks[i].pc \in {"release", "wgdone", "finished"}

\* the targets of the calls made by call i at depth+1
ChildTargets(i) ==
    {tasks[j].url : j \in {c \in Children(i) : tasks[c].depth = tasks[i].depth + 1}}

\* the admission test as the specification words it
Admissible(target) ==
    LET u == ParseOf[target]
    IN  /\ u.ok
        /\ u.Host = ParseOf[startURL].Host
        /\ \A k \in 1..Len(u.Path) : CharAt(u.Path, k) # "@"
        /\ Len(u.Scheme) >= 4 /\ SubSeq(u.Scheme, 1, 4) = "http"

\* the links of a whole document, made absolute against base
LinksAgainst(base, hrefs) ==
    {Absolute(base, ParseOf[hrefs[k]]) :
        k \in {j \in 1..Len(hrefs) : ParseOf[hrefs[j]].ok}}

\* C7 (Persist failure does not stop expansion): a call whose savePage
\* failed has, once past the loop, made a call at depth+1 for every
\* admissible link of the document it fetched.
C7_PersistFailureExpands ==
    \A i \in Tasks :
        tasks[i].saved = "err" /\ Expanded(i) =>
            \A link \in LinksAgainst(baseURL, PageOf(site, tasks[i].url)) :
                Admissible(link) => link \in ChildTargets(i)

\* C8 (Link expansion): a call whose fetch succeeded has, once past the
\* loop, made a call at depth+1 for every admissible link of the fetched
\* document, the hrefs resolved against the fetched page's own URL.
C8_LinkExpansion ==
    \A i \in Tasks :
        tasks[i].got = "ok" /\ Expanded(i) =>
            \A link \in LinksAgainst(ParseOf[tasks[i].url], PageOf(site, tasks[i].url)) :
                Admissible(link) => link \in ChildTargets(i)

\* the four links of the admission example
ExampleLinks ==
    {"https://site.com/a", "https://other.com/b", "mailto:x@site.com",
     "ftp://site.com/c"}

\* C9 (Admission filter): the calls made by a call are exactly those for
\* the links the loop has reached that have the start URL's host, no '@'
\* in the path and a scheme starting with "http"; of the four example links
\* only https://site.com/a gets a call; and every visited target but the
\* start URL passes the test.
C9_AdmissionFilter ==
    /\ \A i \in Tasks :
          /\ ChildTargets(i) =
                {link \in tasks[i].links \ tasks[i].todo : Admissible(link)}
          /\ Cardinality(Children(i)) = Cardinality(ChildTargets(i))
          /\ ExampleLinks \subseteq tasks[i].links /\ Expanded(i) =>
                ChildTargets(i) \cap ExampleLinks = {"https://site.com/a"}
    /\ \A j \in Tasks :
          tasks[j].parent # 0 => Admissible(tasks[j].url)
    /\ \A target \in visited :
          target = String(baseURL) \/ Admissible(target)

\* A page of site.com gave the four example links and the loop is over; a
\* second page gave a same-host http link with an '@' in its path.
C9_Witness ==
    \E i, j \in Tasks :
        /\ ExampleLinks \subseteq tasks[i].links
        /\ Expanded(i)
        /\ ChildTargets(i) = {"https://site.com/a"}
        /\ "https://site.com/u@x" \in tasks[j].links
        /\ Expanded(j)

\* C10 (Fetch failure is terminal and local): a call whose http.Get failed
\* has printed the error, saved nothing, extracted nothing, made no call,
\* is on its way out through the deferred receive and wg.Done, and its
\* target stays visited with this one fetch only.
C10_FetchFailure ==
    \A i \in Tasks :
        tasks[i].got = "err" =>
            /\ <<"Error fetching", tasks[i].url>> \in log
            /\ tasks[i].saved = "none"
            /\ <<"Error saving page", tasks[i].url>> \notin log
            /\ tasks[i].links = {}
            /\ Children(i) = {}
            /\ Expanded(i)
            /\ tasks[i].pc \in {"wgdone", "finished"} => tasks[i].rel = 1
            /\ tasks[i].url \in visited
            /\ FetchesOf(tasks[i].url) = {i}

\* The fetch of a page failed, the call has finished, and a later call for
\* the same page was turned away instead of fetching again.
C10_Witness ==
    \E i, j \in Tasks :
        /\ tasks[i].got = "err" /\ tasks[i].pc = "finished"
        /\ j > i /\ tasks[j].url = tasks[i].url
        /\ tasks[j].claim = "lost" /\ tasks[j].pc = "finished"
        /\ mainPc = "done"

\* two calls made by the same call of crawlPage
Siblings(a, b) ==
    a # b /\ tasks[a].parent # 0 /\ tasks[a].parent = tasks[b].parent

\* C11 (Isolation of failure): a call whose fetch failed gives its permit
\* back and holds nothing a sibling needs; the sibling expands as any call
\* does, making a call for each admissible link it extracted; and once a
\* fetch or a save has failed anywhere, every call still finishes and
\* Wait returns.
C11_Isolation ==
    /\ [](\A b \in Tasks :
            tasks[b].got = "err" =>
                /\ tasks[b].pc \in {"wgdone", "finished"} => b \notin Holders
                /\ \A a \in Tasks :
                      Siblings(a, b) /\ Expanded(a) =>
                          ChildTargets(a) = {l \in tasks[a].links : Admissible(l)})
    /\ (\E b \in Tasks : tasks[b].got = "err" \/ tasks[b].saved = "err")
            ~> (mainPc = "done" /\ Unfinished = {})

\* The fetch of one link failed; the call for the other link of the same
\* page fetched after that, made its own call, and the run completed.
C11_Witness ==
    \E a, b \in Tasks :
        /\ Siblings(a, b)
        /\ tasks[b].got = "err"
        /\ tasks[a].got = "ok" /\ tasks[a].pc = "finished"
        /\ Children(a) # {}
        /\ mainPc = "done"

\* the targets that calls come to own in one step, by winning their claim
Won ==
    {tasks[i].url : i \in {j \in Tasks : tasks[j].claim # "won" /\ tasks'[j].claim = "won"}}

\* C12 (Visited set discipline): visited never loses a target; a step
\* changes it only by the claim of one call, which inserts that call's own
\* target, absent until then, so no target is inserted twice; and a call in
\* or past http.Get has its target in visited.
C12_VisitedDiscipline ==
    /\ [][/\ visited \subseteq visited'
          /\ visited' = visited \cup Won
          /\ Won \cap visited = {}
          /\ Cardinality(Won) <= 1]_vars
    /\ [](\A i \in Tasks :
            tasks[i].pc = "fetch" \/ tasks[i].got # "none" => tasks[i].url \in visited)

\* Three targets are in visited and the last of them is being fetched.
C12_Witness ==
    /\ Cardinality(visited) = 3
    /\ \E i \in Tasks : tasks[i].pc = "fetch" /\ tasks[i].depth = 2

\* C13 (Seed parse error is the only fatal error): with a start URL that
\* url.Parse rejects, main returns with no call of crawlPage counted or
\* started, nothing visited and the channel empty; with any other start
\* URL main never returns early, whatever fetch or save fails.
C13_SeedParseError ==
    /\ ~ParseOf[startURL].ok =>
          /\ mainPc \in {"main", "exit"}
          /\ tasks = <<>> /\ wg = 0 /\ visited = {} /\ concurrencyChan = 0
          /\ files = {} /\ log = {}
    /\ ParseOf[startURL].ok => mainPc # "exit"
    /\ mainPc = "exit" => ~ParseOf[startURL].ok

\* main has returned on the start URL without a scheme before its colon.
C13_Witness ==
    /\ startURL = ":site.com"
    /\ mainPc = "exit"

\* name is path with "_" wherever path has "/", followed by ".html";
\* "index.html" for the empty and the root path
IsNameOf(name, path) ==
    IF path \in {"", "/"} THEN name = "index.html"
    ELSE /\ Len(name) = Len(path) + 5
         /\ Drop(name, Len(path)) = ".html"
         /\ \A k \in 1..Len(path) :
               CharAt(name, k) = (IF CharAt(path, k) = "/" THEN "_" ELSE CharAt(path, k))

\* file lies in the directory of the seed's host and is named after path
IsArtifactOf(file, path) ==
    LET dir == "crawl_output/" \o ParseOf[startURL].Host \o "/"
    IN  HasPrefix(file, dir) /\ IsNameOf(Drop(file, Len(dir)), path)

\* the calls whose savePage wrote its file
Saved == {i \in Tasks : tasks[i].saved = "ok"}

\* C14 (Persistence naming): the files written are exactly the files named
\* after the paths of the saved targets: the path with every "/" replaced
\* by "_", plus ".html", and index.html for the empty or root path; so
\* /foo/bar is saved as _foo_bar.html, and the name depends on the path
\* alone.
C14_PersistenceNaming ==
    /\ \A i \in Saved : \E f \in files : IsArtifactOf(f, ParseOf[tasks[i].url].Path)
    /\ \A f \in files : \E i \in Saved : IsArtifactOf(f, ParseOf[tasks[i].url].Path)
    /\ \A i \in Saved :
          /\ ParseOf[tasks[i].url].Path = "/foo/bar"
                => "crawl_output/site.com/_foo_bar.html" \in files
          /\ ParseOf[tasks[i].url].Path \in {"", "/"}
                => "crawl_output/site.com/index.html" \in files

\* The page at /foo/bar has been written to _foo_bar.html.
C14_Witness ==
    /\ \E i \in Saved : tasks[i].url = "https://site.com/foo/bar"
    /\ files = {"crawl_output/site.com/_foo_bar.html"}

\* the calls that reached http.Get
Fetched == {i \in Tasks : tasks[i].pc = "fetch" \/ tasks[i].got # "none"}

\* C15 (Canonical target identity): every target in visited, the seed
\* included, has no trailing slash, and no two calls fetch URLs that are
\* equal once their trailing slashes are stripped.
C15_CanonicalTargets ==
    /\ \A target \in visited : TrimRight(target, "/") = target
    /\ \A i, j \in Fetched :
          TrimRight(tasks[i].url, "/") = TrimRight(tasks[j].url, "/") => i = j

\* the lifecycle state of a call
Stage(t) ==
    CASE t.claim \in {"depth", "lost"} -> "Skipped"
      [] t.pc \in {"new", "start"} -> "Pending"
      [] t.pc = "claim" -> "Claiming"
      [] t.pc = "acquire" -> "Admitted"
      [] t.pc = "fetch" -> "Fetching"
      [] t.pc = "save" -> "Persisting"
      [] t.pc = "extract" -> "Extracting"
      [] t.pc \in {"spawn", "go"} -> "Spawning"
      [] OTHER -> "Done"

\* the position of a lifecycle state; the two terminal states come last
Rank(stage) ==
    CASE stage = "Pending" -> 0
      [] stage = "Claiming" -> 1
      [] stage = "Admitted" -> 2
      [] stage = "Fetching" -> 3
      [] stage = "Persisting" -> 4
      [] stage = "Extracting" -> 5
      [] stage = "Spawning" -> 6
      [] OTHER -> 7

\* one step of call i never goes back
Forward(i) ==
    LET from == Stage(tasks[i])
        to == Stage(tasks'[i])
    IN  /\ Rank(to) >= Rank(from)
        /\ from \in {"Skipped", "Done"} => to = from
        /\ to = "Skipped" => from \in {"Pending", "Claiming", "Skipped"}
        /\ tasks[i].got # "none" => tasks'[i].got = tasks[i].got
        /\ tasks[i].pc = "finished" => tasks'[i] = tasks[i]

\* C16 (Forward-only lifecycle): a call moves only forward through
\* Pending, Claiming, then Skipped, or Admitted, Fetching, Persisting,
\* Extracting, Spawning, Done; Skipped and Done are never left, the result
\* of http.Get is set at most once, and every call made ends, finished, in
\* Skipped or Done.
C16_ForwardLifecycle ==
    /\ [][\A i \in Tasks : Forward(i)]_vars
    /\ (Tasks # {}) ~>
          (\A i \in Tasks : tasks[i].pc = "finished"
                                /\ Stage(tasks[i]) \in {"Skipped", "Done"})

\* A call that went through every state is finished beside a skipped one.
C16_Witness ==
    \E i, j \in Tasks :
        /\ tasks[i].pc = "finished" /\ tasks[i].saved # "none"
        /\ Children(i) # {}
        /\ tasks[j].pc = "finished" /\ Stage(tasks[j]) = "Skipped"

\* C17 (Parent-before-child ordering): every call but the seed's was made,
\* one level deeper, by a call that had won its claim and whose http.Get
\* had succeeded; no call has a skipped parent or a parent whose fetch
\* failed.
C17_ParentBeforeChild ==
    \A j \in Tasks :
        LET p == tasks[j].parent
        IN  IF j = 1 THEN p = 0 /\ tasks[j].depth = 0
            ELSE /\ p \in 1..(j - 1)
                 /\ tasks[p].claim = "won"
                 /\ tasks[p].got = "ok"
                 /\ tasks[j].depth = tasks[p].depth + 1

\* A call at depth 2 is at its claim; its parent at depth 1 has fetched.
C17_Witness ==
    \E j \in Tasks :
        /\ tasks[j].depth = 2 /\ tasks[j].pc = "claim"
        /\ tasks[tasks[j].parent].got = "ok"

\* call i is skipped: it returned on depth or found its target in visited
Skipped(i) == tasks[i].claim \in {"depth", "lost"}

\* a step of a call that is skipped, or becomes so, changes nothing shared
\* but the counter, and that only at wg.Done
SkippedStep(i) ==
    tasks'[i] # tasks[i] /\ tasks'[i].claim \in {"depth", "lost"} =>
        /\ visited' = visited
        /\ concurrencyChan' = concurrencyChan
        /\ files' = files /\ log' = log
        /\ Len(tasks') = Len(tasks)
        /\ \A j \in Tasks \ {i} : tasks'[j] = tasks[j]
        /\ wg' = (IF tasks[i].pc = "wgdone" THEN wg - 1 ELSE wg)

\* C18 (Skipped tasks have no effect): the steps of a call that returns on
\* depth, or that finds its target already in visited, leave visited and
\* the channel as they were and change nothing shared but the counter at
\* wg.Done; such a call never sends, fetches, saves or makes a call, and a
\* target that only depth-exceeding calls were made for is not in visited.
C18_SkippedNoEffect ==
    /\ [][\A i \in Tasks : SkippedStep(i)]_vars
    /\ [](\A i \in Tasks :
            Skipped(i) =>
                /\ tasks[i].acq = 0 /\ tasks[i].got = "none" /\ tasks[i].saved = "none"
                /\ Children(i) = {}
                /\ (\A j \in Tasks : tasks[j].url = tasks[i].url => tasks[j].claim # "won")
                        => tasks[i].url \notin visited)

\* One finished call returned on depth with its target not in visited;
\* another finished call found its target in visited.
C18_Witness ==
    \E i, j \in Tasks :
        /\ tasks[i].claim = "depth" /\ tasks[i].pc = "finished"
        /\ tasks[i].url \notin visited
        /\ tasks[j].claim = "lost" /\ tasks[j].pc = "finished"

\* C19 (Permit held to task end and released before finish): a call holds
\* a permit exactly from its send, made after it won its claim, through
\* http.Get, savePage, extractLinks and the loop, up to the deferred
\* receive; it has given the permit back before wg.Done; so with the counter
\* at zero no permit is held.
C19_PermitHeldToEnd ==
    /\ \A i \in Tasks :
          /\ tasks[i].pc \in {"new", "start", "claim", "acquire"} => tasks[i].acq = 0
          /\ i \in Holders <=>
                tasks[i].pc \in {"fetch", "save", "extract", "spawn", "go", "release"}
          /\ i \in Holders => tasks[i].claim = "won" /\ tasks[i].acq = 1 /\ tasks[i].rel = 0
          /\ tasks[i].pc \in {"wgdone", "finished"} => tasks[i].rel = tasks[i].acq
    /\ wg = 0 => Holders = {} /\ concurrencyChan = 0

\* Wait has returned with the counter at zero after three calls held a
\* permit, one of them through the loop that made the other two.
C19_Witness ==
    /\ mainPc = "done" /\ wg = 0
    /\ Cardinality({i \in Tasks : tasks[i].rel = 1}) = 3
    /\ \E i \in Tasks : tasks[i].rel = 1 /\ Cardinality(Children(i)) = 2

\* the targets within n hops of the seed: each hop follows an admissible
\* link of a page, resolved against that page's URL
RECURSIVE ReachWithin(_)
ReachWithin(n) ==
    IF n = 0 THEN {String(ParseOf[startURL])}
    ELSE LET near == ReachWithin(n - 1)
         IN  near \cup
             {l \in UNION {LinksAgainst(ParseOf[t], PageOf(site, t)) : t \in near} :
                Admissible(l)}

\* C20 (Depth-bounded coverage independent of interleaving): when Wait has
\* returned and no http.Get failed, every target within maxDepth hops of
\* the seed has been fetched.
C20_DepthCoverage ==
    mainPc = "done" /\ (\A i \in Tasks : tasks[i].got # "err") =>
        \A target \in ReachWithin(maxDepth) :
            \E i \in Tasks : tasks[i].url = target /\ tasks[i].got = "ok"
====
